---- MODULE Spec2Model ----
(***************************************************************************)
(* Model of src/main.py (GTM Autonomous Agent): the activity log and the   *)
(* metrics, the notifier (send_slack), the CRM client (hubspot_request and *)
(* its wrappers) and the four scheduled jobs.                              *)
(*                                                                         *)
(* Text is modelled as a sequence of one-character strings, time as epoch  *)
(* milliseconds.  TLC integers are 32 bits wide, so the clock of the model *)
(* stands in January 1970; every comparison the code makes is relative to  *)
(* datetime.now(), so nothing depends on the absolute date.                *)
(***************************************************************************)
EXTENDS Integers, Sequences, FiniteSets, TLC

\* ------------------------------------------------------------------------
\* Text helpers: str.lower(), the `in` operator on strings, str.replace().
\* ------------------------------------------------------------------------
UpperChars == <<"A","B","C","D","E","F","G","H","I","J","K","L","M",
                "N","O","P","Q","R","S","T","U","V","W","X","Y","Z">>

LowerChars == <<"a","b","c","d","e","f","g","h","i","j","k","l","m",
                "n","o","p","q","r","s","t","u","v","w","x","y","z">>

DigitChars == <<"0","1","2","3","4","5","6","7","8","9">>

Range(s) == {s[i] : i \in DOMAIN s}

LowerChar(c) ==
    IF c \in Range(UpperChars)
    THEN LowerChars[CHOOSE i \in DOMAIN UpperChars : UpperChars[i] = c]
    ELSE c

\* str.lower()
Lower(s) == [i \in DOMAIN s |-> LowerChar(s[i])]

\* `sub in s` for strings
Contains(s, sub) ==
    \E i \in 1..(Len(s) - Len(sub) + 1) : SubSeq(s, i, i + Len(sub) - 1) = sub

RECURSIVE ReplaceZ(_)
\* s.replace('Z', '+00:00')
ReplaceZ(s) ==
    IF s = <<>> THEN <<>>
    ELSE (IF Head(s) = "Z" THEN <<"+","0","0",":","0","0">> ELSE <<Head(s)>>)
         \o ReplaceZ(Tail(s))

IsDigit(c) == c \in Range(DigitChars)

DigitVal(c) == (CHOOSE i \in DOMAIN DigitChars : DigitChars[i] = c) - 1

AllDigits(s) == s # <<>> /\ \A i \in DOMAIN s : IsDigit(s[i])

RECURSIVE DecimalValue(_)
\* value of a non-empty string of decimal digits
DecimalValue(s) ==
    IF s = <<>> THEN 0
    ELSE 10 * DecimalValue(SubSeq(s, 1, Len(s) - 1)) + DigitVal(s[Len(s)])

\* ------------------------------------------------------------------------
\* JSON property values as the CRM returns them: the key is absent, null, a
\* string or a number.
\* ------------------------------------------------------------------------
Absent == [t |-> "absent"]
Null == [t |-> "null"]
Str(s) == [t |-> "str", s |-> s]
Num(n) == [t |-> "num", n |-> n]

\* dict.get(key, default): the default replaces an absent key only, a null
\* value comes back as None.
Get(v, default) == IF v.t = "absent" THEN default ELSE v

\* A computation either yields a value or raises an exception class.
Val(v) == [exc |-> "none", v |-> v]
Raise(e) == [exc |-> e, v |-> 0]

\* int(x): a number as it is, a string of decimal digits (optionally signed)
\* as its value, any other string ValueError, None TypeError.
PyInt(v) ==
    CASE v.t = "num" -> Val(v.n)
      [] v.t = "str" ->
           IF AllDigits(v.s) THEN Val(DecimalValue(v.s))
           ELSE IF Len(v.s) > 1 /\ v.s[1] = "-" /\ AllDigits(Tail(v.s))
                THEN Val(0 - DecimalValue(Tail(v.s)))
                ELSE Raise("ValueError")
      [] OTHER -> Raise("TypeError")

\* float(x) on the numerals the CRM fixtures use (whole amounts): same
\* outcomes as int(x).  Fractional numerals are outside the input sets.
PyFloat(v) == PyInt(v)

\* ------------------------------------------------------------------------
\* Time.
\* ------------------------------------------------------------------------
SecondMs == 1000
HourMs == 60 * 60 * SecondMs
DayMs == 24 * HourMs

\* timedelta(days=7) and timedelta(days=1) in milliseconds
SevenDaysMs == 7 * DayMs
OneDayMs == 1 * DayMs

IsLeap(y) == (y % 4 = 0 /\ y % 100 # 0) \/ y % 400 = 0

DaysInMonth(y, m) ==
    IF m = 2 THEN (IF IsLeap(y) THEN 29 ELSE 28)
    ELSE IF m \in {4, 6, 9, 11} THEN 30 ELSE 31

RECURSIVE DaysBeforeMonth(_, _)
DaysBeforeMonth(y, m) ==
    IF m = 1 THEN 0 ELSE DaysBeforeMonth(y, m - 1) + DaysInMonth(y, m - 1)

RECURSIVE DaysBeforeYear(_)
\* days from 1970-01-01 to y-01-01, y >= 1970
DaysBeforeYear(y) ==
    IF y = 1970 THEN 0
    ELSE DaysBeforeYear(y - 1) + (IF IsLeap(y - 1) THEN 366 ELSE 365)

\* datetime.fromisoformat(s).timestamp() * 1000 for the layout
\* YYYY-MM-DDTHH:MM:SS followed by nothing or by +00:00.  A naive time is
\* read in the process's zone, taken to be UTC.  Any other text: ValueError.
FromIsoMs(s) ==
    LET n == Len(s)
        shape == /\ n \in {19, 25}
                 /\ \A i \in {1,2,3,4,6,7,9,10,12,13,15,16,18,19} : IsDigit(s[i])
                 /\ s[5] = "-" /\ s[8] = "-" /\ s[11] = "T"
                 /\ s[14] = ":" /\ s[17] = ":"
                 /\ (n = 25 => SubSeq(s, 20, 25) = <<"+","0","0",":","0","0">>)
    IN  IF ~shape THEN Raise("ValueError")
        ELSE LET y == DecimalValue(SubSeq(s, 1, 4))
                 mo == DecimalValue(SubSeq(s, 6, 7))
                 d == DecimalValue(SubSeq(s, 9, 10))
                 h == DecimalValue(SubSeq(s, 12, 13))
                 mi == DecimalValue(SubSeq(s, 15, 16))
                 sec == DecimalValue(SubSeq(s, 18, 19))
             IN  IF \/ y < 1970 \/ mo < 1 \/ mo > 12 \/ d < 1
                    \/ h > 23 \/ mi > 59 \/ sec > 59
                 THEN Raise("ValueError")
                 ELSE IF d > DaysInMonth(y, mo) THEN Raise("ValueError")
                 ELSE Val((DaysBeforeYear(y) + DaysBeforeMonth(y, mo) + (d - 1)) * DayMs
                          + h * HourMs + mi * 60 * SecondMs + sec * SecondMs)

\* The date parse every job repeats inline: a string holding a T is read as
\* ISO-8601 (Z standing for +00:00), anything else goes through int().
ParseDateMs(v) ==
    IF v.t = "str" /\ Contains(v.s, <<"T">>)
    THEN FromIsoMs(ReplaceZ(v.s))
    ELSE PyInt(v)

\* ------------------------------------------------------------------------
\* Activity log and metrics.
\* ------------------------------------------------------------------------
\* capacity of agent_log
LogCap == 200

Entry(type, message) == [type |-> type, message |-> message]

LogActionEarlyPopMutant(log, type, message) ==
    LET l == <<Entry(type, message)>> \o log
    IN  IF Len(l) >= LogCap THEN SubSeq(l, 1, Len(l) - 1) ELSE l

\* log_action: insert at the head, drop the last entry beyond the capacity
log_action(log, type, message) ==
    LET l == <<Entry(type, message)>> \o log
    IN  IF Len(l) > LogCap THEN SubSeq(l, 1, Len(l) - 1) ELSE l

JobNames == {"morning_brief", "deal_health", "lead_score", "weekly_report"}

\* the metrics dictionary after import; last_run is the set of job names
\* that have an entry
InitialMetrics ==
    [leads_analyzed |-> 0, deals_monitored |-> 0, interventions_made |-> 0,
     alerts_sent |-> 0, last_run |-> {}]

\* ------------------------------------------------------------------------
\* What the outside world answers to one HTTP call: a transport exception
\* or a response with a status and a body.  A body is a JSON dictionary
\* (which keys it has, and its results), a JSON list, or not JSON at all.
\* ------------------------------------------------------------------------
TransportException == [kind |-> "exception"]
Response(status, body) == [kind |-> "response", status |-> status, body |-> body]

DictBody(has_id, has_results, results, extra) ==
    [t |-> "dict", has_id |-> has_id, has_results |-> has_results,
     results |-> results, extra |-> extra]
ListBody(n) == [t |-> "list", n |-> n]
InvalidBody == [t |-> "invalid"]
None == [t |-> "none"]

\* Python truth value of a returned JSON value
Truthy(b) ==
    CASE b.t = "dict" -> b.has_id \/ b.has_results \/ b.extra
      [] b.t = "list" -> b.n > 0
      [] OTHER -> FALSE

\* ------------------------------------------------------------------------
\* send_slack(message, blocks): url is SLACK_WEBHOOK_URL, outcome what the
\* webhook answers if it is called.  Yields the new log, the new metrics,
\* the returned boolean and the number of network calls made.
\* ------------------------------------------------------------------------
SlackSuccess2xxMutant(status) == status >= 200 /\ status < 300

\* response.status_code == 200
SlackSuccess(status) == status = 200

SlackUnconfiguredMutant(url) == url = "unset"

\* not SLACK_WEBHOOK_URL or SLACK_WEBHOOK_URL == 'demo-mode'
SlackUnconfigured(url) == url \in {"unset", "demo-mode"}

send_slack(log, m, url, outcome) ==
    IF SlackUnconfigured(url)
    THEN [log |-> log_action(log, "SLACK", "Demo mode"), metrics |-> m,
          ret |-> TRUE, posts |-> 0]
    ELSE IF outcome.kind = "exception"
    THEN [log |-> log_action(log, "ERROR", "Slack error"), metrics |-> m,
          ret |-> FALSE, posts |-> 1]
    ELSE IF SlackSuccess(outcome.status)
    THEN [log |-> log_action(log, "SLACK", "Message sent successfully"),
          metrics |-> [m EXCEPT !.alerts_sent = @ + 1],
          ret |-> TRUE, posts |-> 1]
    ELSE [log |-> log_action(log, "ERROR", "Slack failed"), metrics |-> m,
          ret |-> FALSE, posts |-> 1]

\* ------------------------------------------------------------------------
\* hubspot_request(endpoint, method, ...): token is bool(HUBSPOT_TOKEN),
\* outcome what the CRM answers if it is called.  Yields the new log, the
\* returned value (None or the parsed body) and the number of calls made.
\* ------------------------------------------------------------------------
SupportedMethods == {"GET", "POST", "PATCH", "PUT"}

HubspotSuccess(status) == status \in {200, 201}

HubspotSilentFailureMutant(log, token, method, outcome) ==
    IF token /\ method \in SupportedMethods /\ outcome.kind = "response"
       /\ HubspotSuccess(outcome.status) /\ outcome.body.t # "invalid"
    THEN [log |-> log, ret |-> outcome.body, sent |-> 1]
    ELSE [log |-> log, ret |-> None, sent |-> 0]

hubspot_request(log, token, method, outcome) ==
    IF ~token
    THEN [log |-> log_action(log, "ERROR", "HubSpot token not configured"),
          ret |-> None, sent |-> 0]
    ELSE IF method \notin SupportedMethods
    THEN [log |-> log, ret |-> None, sent |-> 0]
    ELSE IF outcome.kind = "exception"
    THEN [log |-> log_action(log, "ERROR", "HubSpot request exception"),
          ret |-> None, sent |-> 1]
    ELSE IF HubspotSuccess(outcome.status)
    THEN IF outcome.body.t = "invalid"
         THEN \* response.json() raises inside the try
              [log |-> log_action(log, "ERROR", "HubSpot request exception"),
               ret |-> None, sent |-> 1]
         ELSE [log |-> log, ret |-> outcome.body, sent |-> 1]
    ELSE [log |-> log_action(log, "ERROR", "HubSpot status"),
          ret |-> None, sent |-> 1]

\* result.get('results', []) if result else []  -- shared by
\* get_hubspot_contacts and get_hubspot_deals.  A list has no .get.
ResultsOf(ret) ==
    IF ~Truthy(ret) THEN Val(<<>>)
    ELSE IF ret.t = "dict"
         THEN Val(IF ret.has_results THEN ret.results ELSE <<>>)
         ELSE Raise("AttributeError")

\* get_hubspot_contacts / get_hubspot_deals: one GET, then ResultsOf.
\* Yields the new log, the records (or the exception) and the calls made.
get_hubspot_records(log, token, outcome) ==
    LET r == hubspot_request(log, token, "GET", outcome)
        res == ResultsOf(r.ret)
    IN  [log |-> r.log, exc |-> res.exc, v |-> res.v, sent |-> r.sent]

get_hubspot_contacts(log, token, outcome) == get_hubspot_records(log, token, outcome)

get_hubspot_deals(log, token, outcome) == get_hubspot_records(log, token, outcome)

\* ------------------------------------------------------------------------
\* create_hubspot_task(title, notes, due_date, deal_id): post is the answer
\* to the task POST, put the answer to the association PUT.  deal_id is a
\* non-empty identifier.  Yields the new log and metrics, whether a task
\* came back, the exception raised (task["id"] on a body without id), the
\* calls made and whether the association was attempted.
\* ------------------------------------------------------------------------
create_hubspot_task(log, m, token, post, put) ==
    LET r == hubspot_request(log, token, "POST", post)
        task == r.ret
    IN  IF ~Truthy(task)
        THEN [log |-> r.log, metrics |-> m, task |-> FALSE, exc |-> "none",
              sent |-> r.sent, assoc |-> FALSE]
        ELSE IF task.t # "dict"
        THEN [log |-> r.log, metrics |-> m, task |-> FALSE, exc |-> "TypeError",
              sent |-> r.sent, assoc |-> FALSE]
        ELSE IF ~task.has_id
        THEN [log |-> r.log, metrics |-> m, task |-> FALSE, exc |-> "KeyError",
              sent |-> r.sent, assoc |-> FALSE]
        ELSE LET a == hubspot_request(r.log, token, "PUT", put)
             IN  [log |-> log_action(a.log, "TASK", "Created"),
                  metrics |-> [m EXCEPT !.interventions_made = @ + 1],
                  task |-> TRUE, exc |-> "none",
                  sent |-> r.sent + a.sent, assoc |-> TRUE]

\* ------------------------------------------------------------------------
\* analyze_with_claude(prompt, context): client is `anthropic_client is not
\* None`, ok whether the completion call succeeds.  Always returns text.
\* ------------------------------------------------------------------------
analyze_with_claude(log, client, ok) ==
    IF ~client THEN [log |-> log, sent |-> 0]
    ELSE IF ok THEN [log |-> log, sent |-> 1]
    ELSE [log |-> log_action(log, "ERROR", "Claude analysis error"), sent |-> 1]

\* ------------------------------------------------------------------------
\* The clock and the CRM content the jobs are run against.
\* ------------------------------------------------------------------------
\* datetime.now() in epoch milliseconds: two instants one millisecond apart,
\* so that a record exactly at a cutoff for one is beyond it for the other
NowBase == 10 * DayMs
NowValues == {NowBase, NowBase + 1}

\* Deals of the CRM (id and the properties the jobs read).  Relative to
\* NowBase the 7-day cutoff is 259200000: deal 3 is modified exactly then,
\* deal 5 one second before; deals 5 to 10 are six stalled deals.
DealCatalog == <<
    [id |-> 1, dealstage |-> Str(<<"C","l","o","s","e","d"," ","W","o","n">>),
     hs_lastmodifieddate |-> Str(<<"1","0","0","0">>),
     amount |-> Str(<<"9","0","0">>)],
    [id |-> 2, dealstage |-> Str(<<"n","e","g","o","t","i","a","t","i","o","n">>),
     hs_lastmodifieddate |-> Str(<<"8","6","3","9","9","9","0","0","0">>),
     amount |-> Str(<<"1","0","0","0">>)],
    [id |-> 3, dealstage |-> Str(<<"N","e","g","o","t","i","a","t","i","o","n">>),
     hs_lastmodifieddate |-> Str(<<"2","5","9","2","0","0","0","0","0">>),
     amount |-> Str(<<"3","0","0">>)],
    [id |-> 4, dealstage |-> Str(<<"n","e","g","o","t","i","a","t","i","o","n">>),
     hs_lastmodifieddate |-> Str(<<"T","u","e","s","d","a","y">>),
     amount |-> Str(<<"1","0","0">>)],
    [id |-> 5, dealstage |-> Str(<<"n","e","g","o","t","i","a","t","i","o","n">>),
     hs_lastmodifieddate |-> Str(<<"2","5","9","1","9","9","0","0","0">>),
     amount |-> Str(<<"5","0","0">>)],
    [id |-> 6, dealstage |-> Str(<<"q","u","a","l","i","f","i","e","d">>),
     hs_lastmodifieddate |-> Str(<<"1","9","7","0","-","0","1","-","0","2","T","0","0",":","0","0",":","0","0","Z">>),
     amount |-> Str(<<"8","0","0">>)],
    [id |-> 7, dealstage |-> Str(<<"p","r","o","p","o","s","a","l">>),
     hs_lastmodifieddate |-> Num(5000),
     amount |-> Num(650)],
    [id |-> 8, dealstage |-> Str(<<"d","e","m","o">>),
     hs_lastmodifieddate |-> Str(<<"3","0","0","0">>),
     amount |-> Str(<<"4","0","0">>)],
    [id |-> 9, dealstage |-> Str(<<"p","i","l","o","t">>),
     hs_lastmodifieddate |-> Str(<<"4","0","0","0">>),
     amount |-> Str(<<"6","0","0">>)],
    [id |-> 10, dealstage |-> Str(<<"p","r","e","s","e","n","t","a","t","i","o","n">>),
     hs_lastmodifieddate |-> Str(<<"2","0","0","0">>),
     amount |-> Absent],
    [id |-> 11, dealstage |-> Str(<<"n","e","g","o","t","i","a","t","i","o","n">>),
     hs_lastmodifieddate |-> Null,
     amount |-> Str(<<"2","0","0">>)],
    [id |-> 12, dealstage |-> Str(<<"u","p","s","e","l","l">>),
     hs_lastmodifieddate |-> Str(<<"6","0","0","0">>),
     amount |-> Str(<<"6","0","0">>)],
    [id |-> 13, dealstage |-> Str(<<"c","o","n","t","r","a","c","t","s","e","n","t">>),
     hs_lastmodifieddate |-> Absent,
     amount |-> Str(<<"7","0","0">>)],
    [id |-> 14, dealstage |-> Str(<<"r","e","n","e","w","a","l">>),
     hs_lastmodifieddate |-> Str(<<"7","0","0","0">>),
     amount |-> Str(<<"a","b","c">>)],
    [id |-> 15, dealstage |-> Str(<<"C","L","O","S","E","D","L","O","S","T">>),
     hs_lastmodifieddate |-> Str(<<"8","0","0","0">>),
     amount |-> Str(<<"5","0">>)],
    [id |-> 16, dealstage |-> Null,
     hs_lastmodifieddate |-> Str(<<"9","0","0","0">>),
     amount |-> Str(<<"1","0">>)],
    [id |-> 17, dealstage |-> Str(<<"c","l","o","s","e","d","w","o","n">>),
     hs_lastmodifieddate |-> Str(<<"9","5","0","0">>),
     amount |-> Null]
>>

\* Contacts of the CRM.  Relative to NowBase the 24-hour cutoff is
\* 777600000: contact 1 is created exactly then, contact 2 1 ms later.
ContactCatalog == <<
    [id |-> 1, createdate |-> Str(<<"7","7","7","6","0","0","0","0","0">>),
     lead_score_ml |-> Absent],
    [id |-> 2, createdate |-> Str(<<"7","7","7","6","0","0","0","0","1">>),
     lead_score_ml |-> Str(<<"8","5">>)],
    [id |-> 3, createdate |-> Absent,
     lead_score_ml |-> Absent],
    [id |-> 4, createdate |-> Str(<<"y","e","s","t","e","r","d","a","y">>),
     lead_score_ml |-> Absent],
    [id |-> 5, createdate |-> Str(<<"1","9","7","0","-","0","1","-","1","0","T","1","2",":","0","0",":","0","0","Z">>),
     lead_score_ml |-> Num(90)],
    [id |-> 6, createdate |-> Null,
     lead_score_ml |-> Str(<<"5","0">>)],
    [id |-> 7, createdate |-> Str(<<"1","0","0","0">>),
     lead_score_ml |-> Str(<<"h","i","g","h">>)],
    [id |-> 8, createdate |-> Str(<<"7","7","7","6","0","0","0","0","2">>),
     lead_score_ml |-> Absent]
>>

\* longest deal page of the deal-health specification, longest contact page
\* of the morning-brief specification, longest page anywhere else
MaxDeals == 6
MaxContacts == 4
MaxShort == 2

\* the pages a fetch can return: runs of consecutive catalogue records
Pages(catalog, maxlen) ==
    {<<>>} \cup
    {SubSeq(catalog, w[1], w[1] + w[2] - 1) :
        w \in {x \in (1..Len(catalog)) \X (1..maxlen) : x[1] + x[2] - 1 <= Len(catalog)}}

DealPages == Pages(DealCatalog, MaxDeals)
ContactPages == Pages(ContactCatalog, MaxContacts)
ShortDealPages == Pages(DealCatalog, MaxShort)
ShortContactPages == Pages(ContactCatalog, MaxShort)

\* answers of the CRM to a list request
FetchOutcomes(pages) ==
    {TransportException,
     Response(500, InvalidBody),
     Response(204, DictBody(FALSE, FALSE, <<>>, FALSE)),
     Response(200, InvalidBody),
     Response(200, ListBody(1)),
     Response(200, ListBody(0)),
     Response(200, DictBody(FALSE, FALSE, <<>>, TRUE))}
    \cup {Response(200, DictBody(FALSE, TRUE, p, FALSE)) : p \in pages}

\* answers of the CRM to the task POST and to the association PUT
TaskOutcomes ==
    {Response(500, InvalidBody),
     Response(201, DictBody(TRUE, FALSE, <<>>, TRUE)),
     Response(201, DictBody(FALSE, FALSE, <<>>, TRUE))}

AssocOutcomes ==
    {Response(404, InvalidBody),
     Response(200, DictBody(FALSE, FALSE, <<>>, TRUE))}

\* answers of the chat webhook
WebhookOutcomes ==
    {TransportException, Response(200, InvalidBody),
     Response(204, InvalidBody), Response(500, InvalidBody)}

DealFetchOutcomes == FetchOutcomes(DealPages)
ContactFetchOutcomes == FetchOutcomes(ContactPages)
ShortDealOutcomes == FetchOutcomes(ShortDealPages)
ShortContactOutcomes == FetchOutcomes(ShortContactPages)

\* ------------------------------------------------------------------------
\* State.
\* ------------------------------------------------------------------------
VARIABLES
    agent_log,          \* the activity log, newest entry first
    metrics,            \* the counters and last_run
    HUBSPOT_TOKEN,      \* whether the CRM token is configured
    SLACK_WEBHOOK_URL,  \* "unset", "demo-mode" or "url"
    anthropic_client,   \* whether the LLM client was built
    pc,                 \* where the running job (or endpoint) stands
    job,                \* the job being run, "none" when idle
    caller,             \* "scheduler" or "manual" (trigger_job)
    locals,             \* the local variables of the running job
    exc,                \* the exception that reached the job's try, or "none"
    calls,              \* network calls made: to the CRM, the webhook, the LLM
    slack,              \* the send_slack invocations: payload and result
    task_calls,         \* deal ids create_hubspot_task was called with, in order
    faults,             \* what went wrong in the run so far (see FaultKinds)
    response,           \* HTTP status trigger_job answered, 0 before
    threads,            \* per thread: the run it executes and where it stands
    crm,                \* the CRM: the deals it serves while its content is
                        \* held unchanged (None when it is not), and the deals
                        \* that received a follow-up task, in order of creation
    performed           \* what the threads' runs did so far: per counter the sum
                        \* of the increments, and the number of log_action calls

vars == <<agent_log, metrics, HUBSPOT_TOKEN, SLACK_WEBHOOK_URL, anthropic_client,
          pc, job, caller, locals, exc, calls, slack, task_calls, faults,
          response, threads, crm, performed>>

config == <<HUBSPOT_TOKEN, SLACK_WEBHOOK_URL, anthropic_client>>

\* the thread-level view of the process (see the section on threads)
threading == <<threads, performed>>

\* the threads that run jobs: the workers of the scheduler's pool (jobs the
\* scheduler fires) and the server's request threads (trigger_job)
Workers == {"worker1", "worker2"}
RequestThreads == {"request1"}
Threads == Workers \cup RequestThreads

Counters == {"leads_analyzed", "deals_monitored", "interventions_made", "alerts_sent"}

IdleThread == [state |-> "idle"]

NoLocals == [now |-> 0]

\* the process after startup: __main__ logged twice (the second time from
\* start_scheduler), nothing has run
StartupLog ==
    log_action(log_action(<<>>, "STARTUP", "started"), "STARTUP", "Scheduler started")

\* held: the deals the CRM serves while its content is held unchanged
InitWith(held) ==
    /\ agent_log = StartupLog
    /\ metrics = InitialMetrics
    /\ HUBSPOT_TOKEN \in BOOLEAN
    /\ SLACK_WEBHOOK_URL \in {"unset", "demo-mode", "url"}
    /\ anthropic_client \in BOOLEAN
    /\ pc = "idle"
    /\ job = "none"
    /\ caller = "none"
    /\ locals = NoLocals
    /\ exc = "none"
    /\ calls = [crm |-> 0, webhook |-> 0, llm |-> 0]
    /\ slack = <<>>
    /\ task_calls = <<>>
    /\ faults = {}
    /\ response = 0
    /\ threads = [t \in Threads |-> IdleThread]
    /\ crm = [deals |-> held, tasks |-> <<>>]
    /\ performed = [c \in Counters \cup {"log_entries"} |-> 0]

Init == InitWith(None)

\* ------------------------------------------------------------------------
\* Who starts a job: the scheduler, or POST /api/trigger/<job_name>.
\* ------------------------------------------------------------------------
SchedulerFire(j) ==
    /\ pc = "idle"
    /\ job' = j
    /\ caller' = "scheduler"
    /\ pc' = "start"
    /\ UNCHANGED <<agent_log, metrics, config, crm, threading, locals, exc, calls, slack,
                   task_calls, faults, response>>

RegisteredAnyNameMutant(name) == TRUE

\* job_name in jobs
Registered(name) == name \in JobNames

\* names a caller may put in the URL that are not registered
UnknownNames == {"unknown", "DEAL_HEALTH"}

\* trigger_job: an unknown name is answered 400, a known job is called
trigger_job(name) ==
    /\ pc = "idle"
    /\ locals' = [now |-> 0, job_name |-> name]
    /\ IF ~Registered(name)
       THEN /\ response' = 400
            /\ pc' = "done"
            /\ UNCHANGED <<job, caller>>
       ELSE /\ job' = name
            /\ caller' = "manual"
            /\ pc' = "start"
            /\ UNCHANGED response
    /\ UNCHANGED <<agent_log, metrics, config, crm, threading, exc, calls, slack, task_calls,
                   faults>>

\* ------------------------------------------------------------------------
\* What can go wrong in a run, recorded in `faults` as it happens:
\*   "crm"      a CRM call gave no parsed successful response
\*   "date"     a date did not parse (the record is skipped)
\*   "llm"      the completion call failed
\*   "webhook"  the webhook was called and did not accept the message
\* An exception that reaches the try of the job is recorded in `exc`.
\* ------------------------------------------------------------------------
FaultKinds == {"crm", "date", "llm", "webhook"}

\* the CRM call gives no parsed successful response
RequestFails(token, outcome) ==
    \/ ~token
    \/ outcome.kind = "exception"
    \/ outcome.status \notin {200, 201}
    \/ outcome.body.t = "invalid"

If(c, x) == IF c THEN {x} ELSE {}

\* ------------------------------------------------------------------------
\* The failure boundary of a job: `except Exception` around the body.
\* ------------------------------------------------------------------------
ExceptionClasses == {"ValueError", "TypeError", "KeyError", "AttributeError"}

JobCatchesParseOnlyMutant(e) == e \in {"ValueError", "TypeError"}

JobCatchesNoKeyErrorMutant(e) == e \in ExceptionClasses \ {"KeyError"}

\* except Exception as e
JobCatches(e) == e \in ExceptionClasses

FailMessage(j) ==
    CASE j = "morning_brief" -> "Morning brief failed"
      [] j = "deal_health" -> "Deal health check failed"
      [] j = "lead_score" -> "Lead score analysis failed"
      [] OTHER -> "Weekly report failed"

\* an exception e reaches the try of job j with the log at `log`
Boundary(log, j, e) ==
    IF JobCatches(e)
    THEN [log |-> log_action(log, "ERROR", FailMessage(j)), pc |-> "return"]
    ELSE [log |-> log, pc |-> "raised"]

\* ------------------------------------------------------------------------
\* deal_health_check_job
\* ------------------------------------------------------------------------
\* stalled_deals[:5]
TopN == 5

Min(a, b) == IF a < b THEN a ELSE b

Top(s) == SubSeq(s, 1, Min(TopN, Len(s)))

\* props.get('hs_lastmodifieddate', '0') / props.get('createdate', '0')
DateDefault == Str(<<"0">>)

StalledInclusiveMutant(stage, ms, cutoff) ==
    ~Contains(Lower(stage), <<"c","l","o","s","e","d">>) /\ ms <= cutoff

StalledIgnoresStageMutant(stage, ms, cutoff) == ms < cutoff

\* 'closed' not in stage.lower() and last_modified_ms < seven_days_ago_ms
Stalled(stage, ms, cutoff) ==
    ~Contains(Lower(stage), <<"c","l","o","s","e","d">>) /\ ms < cutoff

RECURSIVE ScanDeals(_, _, _)
\* the loop over the fetched deals: the stalled records built, the ids whose
\* date did not parse (skipped by `continue`), or the exception raised
ScanDeals(deals, nowms, acc) ==
    IF deals = <<>> THEN [exc |-> "none", v |-> acc.v, skipped |-> acc.skipped]
    ELSE LET deal == Head(deals)
             stage == Get(deal.dealstage, Str(<<>>))
             last_modified == Get(deal.hs_lastmodifieddate, DateDefault)
             parsed == ParseDateMs(last_modified)
             cutoff == nowms - SevenDaysMs
         IN  IF parsed.exc \in {"ValueError", "TypeError"}
             THEN ScanDeals(Tail(deals), nowms,
                            [acc EXCEPT !.skipped = @ \cup {deal.id}])
             ELSE IF stage.t # "str"
             THEN [exc |-> "AttributeError", v |-> acc.v, skipped |-> acc.skipped]
             ELSE IF ~Stalled(stage.s, parsed.v, cutoff)
             THEN ScanDeals(Tail(deals), nowms, acc)
             ELSE LET amount == IF deal.amount.t \in {"absent", "null"}
                                THEN Val(0) ELSE PyFloat(deal.amount)
                  IN  IF amount.exc # "none"
                      THEN [exc |-> amount.exc, v |-> acc.v, skipped |-> acc.skipped]
                      ELSE ScanDeals(Tail(deals), nowms,
                             [acc EXCEPT !.v = Append(@,
                                [id |-> deal.id, stage |-> stage.s,
                                 amount |-> amount.v,
                                 days_stalled |-> (nowms - parsed.v) \div DayMs])])

RECURSIVE InsertDesc(_, _)
\* x placed behind every record of the descending list s whose amount is at
\* least x.amount
InsertDesc(s, x) ==
    IF s = <<>> THEN <<x>>
    ELSE IF Head(s).amount >= x.amount THEN <<Head(s)>> \o InsertDesc(Tail(s), x)
    ELSE <<x>> \o s

RECURSIVE SortByAmountDesc(_)
\* stalled_deals.sort(key=amount, reverse=True): stable
SortByAmountDesc(s) ==
    IF s = <<>> THEN <<>>
    ELSE InsertDesc(SortByAmountDesc(SubSeq(s, 1, Len(s) - 1)), s[Len(s)])

Ids(s) == [i \in DOMAIN s |-> s[i].id]

AlertNamesAllMutant(stalled) == Ids(stalled)

\* the deals the alert's section lists: stalled_deals[:5]
AlertNames(stalled) == Ids(Top(stalled))

\* the alert handed to send_slack: the count in the text, the deals listed
AlertPayload(stalled, tasks_created) ==
    [count |-> Len(stalled), named |-> AlertNames(stalled),
     tasks_created |-> tasks_created]

AnyStalledNeedsTwoMutant(stalled) == Len(stalled) > 1

\* if stalled_deals:
AnyStalled(stalled) == stalled # <<>>

MonitoredPerRunMutant(deals) == IF deals = <<>> THEN 0 ELSE 1

\* len(deals), added to deals_monitored
Monitored(deals) == Len(deals)

DealHealthStart ==
    /\ pc = "start" /\ job = "deal_health"
    /\ agent_log' = log_action(agent_log, "JOB_START", "Deal Health Check starting")
    /\ metrics' = [metrics EXCEPT !.last_run = @ \cup {"deal_health"}]
    /\ pc' = "dh_scan"
    /\ UNCHANGED <<config, crm, threading, job, caller, locals, exc, calls, slack, task_calls, faults, response>>

\* lines 282-316 and 357-358: the fetch, the counter, the loop over the
\* deals, and either the sort or the healthy-state entry
DealHealthScan(outcome, nowms) ==
    /\ pc = "dh_scan" /\ job = "deal_health"
    /\ LET f == get_hubspot_deals(agent_log, HUBSPOT_TOKEN, outcome)
       IN  /\ calls' = [calls EXCEPT !.crm = @ + f.sent]
           /\ faults' = faults \cup If(RequestFails(HUBSPOT_TOKEN, outcome), "crm")
                         \cup If(f.exc = "none" /\
                                 ScanDeals(f.v, nowms, [v |-> <<>>, skipped |-> {}]).skipped # {},
                                 "date")
           /\ IF f.exc # "none"
              THEN LET b == Boundary(f.log, job, f.exc)
                   IN  /\ agent_log' = b.log
                       /\ pc' = b.pc
                       /\ exc' = f.exc
                       /\ locals' = [now |-> nowms]
                       /\ UNCHANGED metrics
              ELSE LET scan == ScanDeals(f.v, nowms, [v |-> <<>>, skipped |-> {}])
                       base == [now |-> nowms, deals |-> f.v,
                                skipped |-> scan.skipped]
                   IN  /\ metrics' = [metrics EXCEPT !.deals_monitored = @ + Monitored(f.v)]
                       /\ IF scan.exc # "none"
                          THEN LET b == Boundary(f.log, job, scan.exc)
                               IN  /\ agent_log' = b.log
                                   /\ pc' = b.pc
                                   /\ exc' = scan.exc
                                   /\ locals' = base
                          ELSE IF ~AnyStalled(scan.v)
                          THEN /\ agent_log' = log_action(f.log, "HEALTH_CHECK",
                                                          "All deals healthy")
                               /\ pc' = "return"
                               /\ locals' = [stalled_deals |-> scan.v] @@ base
                               /\ UNCHANGED exc
                          ELSE /\ agent_log' = f.log
                               /\ pc' = "dh_task"
                               /\ locals' = [stalled_deals |-> SortByAmountDesc(scan.v),
                                             i |-> 1, tasks_created |-> 0] @@ base
                               /\ UNCHANGED exc
    /\ UNCHANGED <<config, crm, threading, job, caller, slack, task_calls, response>>

\* one turn of the loop of lines 322-340; after the last turn the alert of
\* lines 343-353 is built
DealHealthTask(post, put) ==
    /\ pc = "dh_task" /\ job = "deal_health"
    /\ LET deal == locals.stalled_deals[locals.i]
           t == create_hubspot_task(agent_log, metrics, HUBSPOT_TOKEN, post, put)
           created == locals.tasks_created + (IF t.task THEN 1 ELSE 0)
       IN  /\ task_calls' = Append(task_calls, deal.id)
           /\ crm' = [crm EXCEPT !.tasks = IF t.task THEN Append(@, deal.id) ELSE @]
           /\ calls' = [calls EXCEPT !.crm = @ + t.sent]
           /\ faults' = faults \cup If(RequestFails(HUBSPOT_TOKEN, post), "crm")
                         \cup If(t.assoc /\ RequestFails(HUBSPOT_TOKEN, put), "crm")
           /\ metrics' = t.metrics
           /\ IF t.exc # "none"
              THEN LET b == Boundary(t.log, job, t.exc)
                   IN  /\ agent_log' = b.log
                       /\ pc' = b.pc
                       /\ exc' = t.exc
                       /\ UNCHANGED locals
              ELSE /\ agent_log' = t.log
                   /\ UNCHANGED exc
                   /\ IF locals.i < Len(Top(locals.stalled_deals))
                      THEN /\ pc' = "dh_task"
                           /\ locals' = [locals EXCEPT !.i = @ + 1,
                                                       !.tasks_created = created]
                      ELSE /\ pc' = "slack"
                           /\ locals' = [payload |-> AlertPayload(locals.stalled_deals,
                                                                  created)] @@
                                        [locals EXCEPT !.tasks_created = created]
    /\ UNCHANGED <<config, threading, job, caller, slack, response>>

\* the call of send_slack every job makes once its message is built
SendSlackStep(outcome) ==
    /\ pc = "slack"
    /\ LET r == send_slack(agent_log, metrics, SLACK_WEBHOOK_URL, outcome)
       IN  /\ agent_log' = r.log
           /\ metrics' = r.metrics
           /\ calls' = [calls EXCEPT !.webhook = @ + r.posts]
           /\ slack' = Append(slack, [payload |-> locals.payload, ret |-> r.ret,
                                       answer |-> IF r.posts = 0 THEN None ELSE outcome])
           /\ faults' = faults \cup If(r.posts > 0 /\ (outcome.kind = "exception" \/
                                                       outcome.status # 200), "webhook")
    /\ pc' = "after_slack"
    /\ UNCHANGED <<config, crm, threading, job, caller, locals, exc, task_calls, response>>

\* line 356
DealHealthFinish ==
    /\ pc = "after_slack" /\ job = "deal_health"
    /\ agent_log' = log_action(agent_log, "ALERT", "Deal health")
    /\ pc' = "return"
    /\ UNCHANGED <<metrics, config, crm, threading, job, caller, locals, exc, calls, slack,
                   task_calls, faults, response>>

\* the job is over: it returned, or an exception left it.  The scheduler
\* goes on; trigger_job answers 200, or logs and answers 500.
JobReturn ==
    /\ pc \in {"return", "raised"}
    /\ pc' = "done"
    /\ IF caller = "manual"
       THEN IF pc = "raised"
            THEN /\ agent_log' = log_action(agent_log, "ERROR", "Manual trigger failed")
                 /\ response' = 500
            ELSE /\ response' = 200
                 /\ UNCHANGED agent_log
       ELSE UNCHANGED <<agent_log, response>>
    /\ UNCHANGED <<metrics, config, crm, threading, job, caller, locals, exc, calls, slack, task_calls,
                   faults>>

\* ------------------------------------------------------------------------
\* The window filter on contacts (morning_brief_job, generate_weekly_report)
\* ------------------------------------------------------------------------
RecentInclusiveMutant(ms, cutoff) == ms >= cutoff

\* createdate_ms > yesterday_ms  /  createdate_ms > week_ago_ms
Recent(ms, cutoff) == ms > cutoff

RECURSIVE ScanContacts(_, _, _)
\* the loop over the fetched contacts: those inside the window, and the ids
\* whose date did not parse (skipped by `continue`)
ScanContacts(contacts, cutoff, acc) ==
    IF contacts = <<>> THEN acc
    ELSE LET c == Head(contacts)
             parsed == ParseDateMs(Get(c.createdate, DateDefault))
         IN  IF parsed.exc \in {"ValueError", "TypeError"}
             THEN ScanContacts(Tail(contacts), cutoff,
                               [acc EXCEPT !.skipped = @ \cup {c.id}])
             ELSE IF Recent(parsed.v, cutoff)
             THEN ScanContacts(Tail(contacts), cutoff,
                               [acc EXCEPT !.v = Append(@, c)])
             ELSE ScanContacts(Tail(contacts), cutoff, acc)

RECURSIVE SumAmounts(_, _)
\* a running sum of float(amount) over deals; whether None is skipped
\* (`if amount is not None`) or handed to float(), and an absent key read as
\* 0, is the caller's choice
SumAmounts(deals, skipNone) ==
    IF deals = <<>> THEN Val(0)
    ELSE LET a == Head(deals).amount
             x == IF a.t = "absent" THEN Val(0)
                  ELSE IF a.t = "null" /\ skipNone THEN Val(0)
                  ELSE PyFloat(a)
         IN  IF x.exc # "none" THEN x
             ELSE LET rest == SumAmounts(Tail(deals), skipNone)
                  IN  IF rest.exc # "none" THEN rest ELSE Val(x.v + rest.v)

\* [d for d in deals if <sub> in/not in dealstage.lower()]: None has no .lower
StagesOk(deals) == \A i \in DOMAIN deals : Get(deals[i].dealstage, Str(<<>>)).t = "str"

StageHas(d, sub) == Contains(Lower(Get(d.dealstage, Str(<<>>)).s), sub)

\* ------------------------------------------------------------------------
\* morning_brief_job
\* ------------------------------------------------------------------------
MorningBriefStart ==
    /\ pc = "start" /\ job = "morning_brief"
    /\ agent_log' = log_action(agent_log, "JOB_START", "Morning Brief starting")
    /\ metrics' = [metrics EXCEPT !.last_run = @ \cup {"morning_brief"}]
    /\ pc' = "mb_contacts"
    /\ UNCHANGED <<config, crm, threading, job, caller, locals, exc, calls, slack, task_calls, faults, response>>

\* lines 210-233: the cutoff, the fetch, the window filter, the counter
MorningBriefContacts(outcome, nowms) ==
    /\ pc = "mb_contacts" /\ job = "morning_brief"
    /\ LET f == get_hubspot_contacts(agent_log, HUBSPOT_TOKEN, outcome)
       IN  /\ calls' = [calls EXCEPT !.crm = @ + f.sent]
           /\ faults' = faults \cup If(RequestFails(HUBSPOT_TOKEN, outcome), "crm")
                         \cup If(f.exc = "none" /\
                                 ScanContacts(f.v, nowms - OneDayMs,
                                              [v |-> <<>>, skipped |-> {}]).skipped # {},
                                 "date")
           /\ IF f.exc # "none"
              THEN LET b == Boundary(f.log, job, f.exc)
                   IN  /\ agent_log' = b.log
                       /\ pc' = b.pc
                       /\ exc' = f.exc
                       /\ locals' = [now |-> nowms]
                       /\ UNCHANGED metrics
              ELSE LET scan == ScanContacts(f.v, nowms - OneDayMs,
                                            [v |-> <<>>, skipped |-> {}])
                   IN  /\ agent_log' = f.log
                       /\ pc' = "mb_deals"
                       /\ metrics' = [metrics EXCEPT !.leads_analyzed = @ + Len(f.v)]
                       /\ locals' = [now |-> nowms, contacts |-> f.v,
                                     recent_contacts |-> scan.v,
                                     skipped |-> scan.skipped]
                       /\ UNCHANGED exc
    /\ UNCHANGED <<config, crm, threading, job, caller, slack, task_calls, response>>

\* lines 236-244: the deals, the open ones, the pipeline value.  From here
\* on the job reads only the sizes of its lists.
MorningBriefDeals(outcome) ==
    /\ pc = "mb_deals" /\ job = "morning_brief"
    /\ LET f == get_hubspot_deals(agent_log, HUBSPOT_TOKEN, outcome)
           open_deals == SelectSeq(f.v, LAMBDA d : ~StageHas(d, <<"c","l","o","s","e","d">>))
           e == IF f.exc # "none" THEN f.exc
                ELSE IF ~StagesOk(f.v) THEN "AttributeError"
                ELSE SumAmounts(open_deals, TRUE).exc
       IN  /\ calls' = [calls EXCEPT !.crm = @ + f.sent]
           /\ faults' = faults \cup If(RequestFails(HUBSPOT_TOKEN, outcome), "crm")
           /\ IF e # "none"
              THEN LET b == Boundary(f.log, job, e)
                   IN  /\ agent_log' = b.log
                       /\ pc' = b.pc
                       /\ exc' = e
                       /\ UNCHANGED locals
              ELSE /\ agent_log' = f.log
                   /\ pc' = "analyze"
                   /\ locals' = [now |-> locals.now,
                                 total_contacts |-> Len(locals.contacts),
                                 new_leads |-> Len(locals.recent_contacts),
                                 open_deals |-> Len(open_deals),
                                 pipeline_value |-> SumAmounts(open_deals, TRUE).v]
                   /\ UNCHANGED exc
    /\ UNCHANGED <<metrics, config, crm, threading, job, caller, slack, task_calls, response>>

\* the call of analyze_with_claude of the three reporting jobs, and the
\* message they build from its text
Analyze(ok) ==
    /\ pc = "analyze"
    /\ LET a == analyze_with_claude(agent_log, anthropic_client, ok)
       IN  /\ agent_log' = a.log
           /\ calls' = [calls EXCEPT !.llm = @ + a.sent]
    /\ faults' = faults \cup If(anthropic_client /\ ~ok, "llm")
    /\ pc' = "slack"
    /\ locals' = [payload |-> [summary |-> job]] @@ locals
    /\ UNCHANGED <<metrics, config, crm, threading, job, caller, exc, slack, task_calls, response>>

FinishTag(j) ==
    CASE j = "morning_brief" -> "BRIEF"
      [] j = "lead_score" -> "ANALYSIS"
      [] OTHER -> "REPORT"

\* lines 271, 402, 461: the completion entry
ReportFinish ==
    /\ pc = "after_slack" /\ job \in {"morning_brief", "lead_score", "weekly_report"}
    /\ agent_log' = log_action(agent_log, FinishTag(job), "completed")
    /\ pc' = "return"
    /\ UNCHANGED <<metrics, config, crm, threading, job, caller, locals, exc, calls, slack,
                   task_calls, faults, response>>

\* ------------------------------------------------------------------------
\* lead_score_optimizer_job
\* ------------------------------------------------------------------------
LeadScoreStart ==
    /\ pc = "start" /\ job = "lead_score"
    /\ agent_log' = log_action(agent_log, "JOB_START", "Lead Score Optimizer starting")
    /\ metrics' = [metrics EXCEPT !.last_run = @ \cup {"lead_score"}]
    /\ pc' = "ls_contacts"
    /\ UNCHANGED <<config, crm, threading, job, caller, locals, exc, calls, slack, task_calls, faults, response>>

\* line 370
LeadScoreContacts(outcome) ==
    /\ pc = "ls_contacts" /\ job = "lead_score"
    /\ LET f == get_hubspot_contacts(agent_log, HUBSPOT_TOKEN, outcome)
       IN  /\ calls' = [calls EXCEPT !.crm = @ + f.sent]
           /\ faults' = faults \cup If(RequestFails(HUBSPOT_TOKEN, outcome), "crm")
           /\ IF f.exc # "none"
              THEN LET b == Boundary(f.log, job, f.exc)
                   IN  /\ agent_log' = b.log /\ pc' = b.pc /\ exc' = f.exc
                       /\ UNCHANGED locals
              ELSE /\ agent_log' = f.log
                   /\ pc' = "ls_deals"
                   /\ locals' = [contacts |-> f.v]
                   /\ UNCHANGED exc
    /\ UNCHANGED <<metrics, config, crm, threading, job, caller, slack, task_calls, response>>

RECURSIVE HighScore(_)
\* [c for c in contacts if int(lead_score_ml or default 0) >= 80]
HighScore(contacts) ==
    IF contacts = <<>> THEN Val(<<>>)
    ELSE LET c == Head(contacts)
             score == PyInt(Get(c.lead_score_ml, Num(0)))
         IN  IF score.exc # "none" THEN score
             ELSE LET rest == HighScore(Tail(contacts))
                  IN  IF rest.exc # "none" THEN rest
                      ELSE Val((IF score.v >= 80 THEN <<c>> ELSE <<>>) \o rest.v)

\* lines 371-377: the deals, the high-score leads, the closed-won deals
LeadScoreDeals(outcome) ==
    /\ pc = "ls_deals" /\ job = "lead_score"
    /\ LET f == get_hubspot_deals(agent_log, HUBSPOT_TOKEN, outcome)
           high == HighScore(locals.contacts)
           e == IF f.exc # "none" THEN f.exc
                ELSE IF high.exc # "none" THEN high.exc
                ELSE IF ~StagesOk(f.v) THEN "AttributeError"
                ELSE "none"
       IN  /\ calls' = [calls EXCEPT !.crm = @ + f.sent]
           /\ faults' = faults \cup If(RequestFails(HUBSPOT_TOKEN, outcome), "crm")
           /\ IF e # "none"
              THEN LET b == Boundary(f.log, job, e)
                   IN  /\ agent_log' = b.log /\ pc' = b.pc /\ exc' = e
                       /\ UNCHANGED locals
              ELSE /\ agent_log' = f.log
                   /\ pc' = "analyze"
                   /\ locals' = [total_analyzed |-> Len(locals.contacts),
                                 high_score_leads |-> Len(high.v),
                                 closed_won |-> Len(SelectSeq(f.v,
                                     LAMBDA d : StageHas(d, <<"c","l","o","s","e","d","w","o","n">>)))]
                   /\ UNCHANGED exc
    /\ UNCHANGED <<metrics, config, crm, threading, job, caller, slack, task_calls, response>>

\* ------------------------------------------------------------------------
\* generate_weekly_report (the scheduled job)
\* ------------------------------------------------------------------------
\* line 409: the job records no last_run
WeeklyReportStart ==
    /\ pc = "start" /\ job = "weekly_report"
    /\ agent_log' = log_action(agent_log, "JOB_START", "Weekly Report generation starting")
    /\ pc' = "wr_contacts"
    /\ UNCHANGED <<metrics, config, crm, threading, job, caller, locals, exc, calls, slack,
                   task_calls, faults, response>>

\* lines 413-415
WeeklyReportContacts(outcome, nowms) ==
    /\ pc = "wr_contacts" /\ job = "weekly_report"
    /\ LET f == get_hubspot_contacts(agent_log, HUBSPOT_TOKEN, outcome)
       IN  /\ calls' = [calls EXCEPT !.crm = @ + f.sent]
           /\ faults' = faults \cup If(RequestFails(HUBSPOT_TOKEN, outcome), "crm")
           /\ IF f.exc # "none"
              THEN LET b == Boundary(f.log, job, f.exc)
                   IN  /\ agent_log' = b.log /\ pc' = b.pc /\ exc' = f.exc
                       /\ locals' = [now |-> nowms]
              ELSE /\ agent_log' = f.log
                   /\ pc' = "wr_deals"
                   /\ locals' = [now |-> nowms, contacts |-> f.v]
                   /\ UNCHANGED exc
    /\ UNCHANGED <<metrics, config, crm, threading, job, caller, slack, task_calls, response>>

\* lines 416-435: the deals, the weekly leads, the closed deals, the revenue
WeeklyReportDeals(outcome) ==
    /\ pc = "wr_deals" /\ job = "weekly_report"
    /\ LET f == get_hubspot_deals(agent_log, HUBSPOT_TOKEN, outcome)
           scan == ScanContacts(locals.contacts, locals.now - SevenDaysMs,
                                [v |-> <<>>, skipped |-> {}])
           weekly_closed == SelectSeq(f.v, LAMBDA d : StageHas(d, <<"c","l","o","s","e","d">>))
           won == SelectSeq(weekly_closed, LAMBDA d : StageHas(d, <<"w","o","n">>))
           revenue == SumAmounts(won, FALSE)
           e == IF f.exc # "none" THEN f.exc
                ELSE IF ~StagesOk(f.v) THEN "AttributeError"
                ELSE revenue.exc
       IN  /\ calls' = [calls EXCEPT !.crm = @ + f.sent]
           /\ faults' = faults \cup If(RequestFails(HUBSPOT_TOKEN, outcome), "crm")
                         \cup If(f.exc = "none" /\ scan.skipped # {}, "date")
           /\ IF e # "none"
              THEN LET b == Boundary(f.log, job, e)
                   IN  /\ agent_log' = b.log /\ pc' = b.pc /\ exc' = e
                       /\ UNCHANGED locals
              ELSE /\ agent_log' = f.log
                   /\ pc' = "analyze"
                   /\ locals' = [now |-> locals.now,
                                 weekly_leads |-> Len(scan.v),
                                 weekly_closed |-> Len(weekly_closed),
                                 revenue |-> revenue.v]
                   /\ UNCHANGED exc
    /\ UNCHANGED <<metrics, config, crm, threading, job, caller, slack, task_calls, response>>

NextHealth ==
    \/ SchedulerFire("deal_health")
    \/ DealHealthStart
    \/ \E o \in DealFetchOutcomes, n \in NowValues :
          DealHealthScan(o, n)
    \/ \E post \in TaskOutcomes, put \in AssocOutcomes : DealHealthTask(post, put)
    \/ \E o \in WebhookOutcomes : SendSlackStep(o)
    \/ DealHealthFinish
    \/ JobReturn

\* deal_health_check_job never reads anthropic_client
InitHealth == Init /\ anthropic_client = FALSE

SpecHealth == InitHealth /\ [][NextHealth]_vars


NextBrief ==
    \/ SchedulerFire("morning_brief")
    \/ MorningBriefStart
    \/ \E o \in ContactFetchOutcomes, n \in NowValues :
          MorningBriefContacts(o, n)
    \/ \E o \in ShortDealOutcomes : MorningBriefDeals(o)
    \/ \E ok \in BOOLEAN : Analyze(ok)
    \/ \E o \in WebhookOutcomes : SendSlackStep(o)
    \/ ReportFinish
    \/ JobReturn

SpecBrief == Init /\ [][NextBrief]_vars

Next ==
    \/ \E j \in JobNames : SchedulerFire(j)
    \/ \E name \in JobNames \cup UnknownNames : trigger_job(name)
    \/ DealHealthStart
    \/ \E o \in ShortDealOutcomes, n \in NowValues :
          DealHealthScan(o, n)
    \/ \E post \in TaskOutcomes, put \in AssocOutcomes : DealHealthTask(post, put)
    \/ DealHealthFinish
    \/ MorningBriefStart
    \/ \E o \in ShortContactOutcomes, n \in NowValues :
          MorningBriefContacts(o, n)
    \/ \E o \in ShortDealOutcomes : MorningBriefDeals(o)
    \/ LeadScoreStart
    \/ \E o \in ShortContactOutcomes : LeadScoreContacts(o)
    \/ \E o \in ShortDealOutcomes : LeadScoreDeals(o)
    \/ WeeklyReportStart
    \/ \E o \in ShortContactOutcomes, n \in NowValues :
          WeeklyReportContacts(o, n)
    \/ \E o \in ShortDealOutcomes : WeeklyReportDeals(o)
    \/ \E ok \in BOOLEAN : Analyze(ok)
    \/ \E o \in WebhookOutcomes : SendSlackStep(o)
    \/ ReportFinish
    \/ JobReturn

Spec == Init /\ [][Next]_vars

\* ------------------------------------------------------------------------
\* The CRM client called on its own: hubspot_request with any method, and
\* the two list wrappers.
\* ------------------------------------------------------------------------
RequestMethods == SupportedMethods \cup {"DELETE"}

RequestOutcomes ==
    {TransportException,
     Response(500, InvalidBody),
     Response(204, DictBody(FALSE, FALSE, <<>>, FALSE)),
     Response(200, InvalidBody),
     Response(200, ListBody(1)),
     Response(201, DictBody(TRUE, FALSE, <<>>, TRUE)),
     Response(200, DictBody(FALSE, TRUE, SubSeq(DealCatalog, 1, 2), FALSE))}

CallHubspotRequest(method, outcome) ==
    /\ pc = "idle"
    /\ LET r == hubspot_request(agent_log, HUBSPOT_TOKEN, method, outcome)
       IN  /\ agent_log' = r.log
           /\ calls' = [calls EXCEPT !.crm = @ + r.sent]
           /\ locals' = [fn |-> "hubspot_request", method |-> method,
                         outcome |-> outcome, ret |-> r.ret, exc |-> "none"]
    /\ pc' = "called"
    /\ UNCHANGED <<metrics, config, crm, threading, job, caller, exc, slack, task_calls, faults, response>>

CallGetContacts(outcome) ==
    /\ pc = "idle"
    /\ LET r == get_hubspot_contacts(agent_log, HUBSPOT_TOKEN, outcome)
       IN  /\ agent_log' = r.log
           /\ calls' = [calls EXCEPT !.crm = @ + r.sent]
           /\ locals' = [fn |-> "get_hubspot_contacts", method |-> "GET",
                         outcome |-> outcome, ret |-> r.v, exc |-> r.exc]
    /\ pc' = "called"
    /\ UNCHANGED <<metrics, config, crm, threading, job, caller, exc, slack, task_calls, faults, response>>

CallGetDeals(outcome) ==
    /\ pc = "idle"
    /\ LET r == get_hubspot_deals(agent_log, HUBSPOT_TOKEN, outcome)
       IN  /\ agent_log' = r.log
           /\ calls' = [calls EXCEPT !.crm = @ + r.sent]
           /\ locals' = [fn |-> "get_hubspot_deals", method |-> "GET",
                         outcome |-> outcome, ret |-> r.v, exc |-> r.exc]
    /\ pc' = "called"
    /\ UNCHANGED <<metrics, config, crm, threading, job, caller, exc, slack, task_calls, faults, response>>

\* answers to the task POST: those of TaskOutcomes and no answer at all; and
\* to the association PUT
CreatePostOutcomes == TaskOutcomes \cup {TransportException}

CreatePutOutcomes == AssocOutcomes \cup {TransportException}

CallCreateTask(post, put) ==
    /\ pc = "idle"
    /\ LET t == create_hubspot_task(agent_log, metrics, HUBSPOT_TOKEN, post, put)
       IN  /\ agent_log' = t.log
           /\ metrics' = t.metrics
           /\ calls' = [calls EXCEPT !.crm = @ + t.sent]
           /\ locals' = [fn |-> "create_hubspot_task", post |-> post, put |-> put,
                         task |-> t.task, exc |-> t.exc, assoc |-> t.assoc]
    /\ pc' = "called"
    /\ UNCHANGED <<config, crm, threading, job, caller, exc, slack, task_calls, faults,
                   response>>

NextRequest ==
    \/ \E post \in CreatePostOutcomes, put \in CreatePutOutcomes :
          CallCreateTask(post, put)
    \/ \E m \in RequestMethods, o \in RequestOutcomes : CallHubspotRequest(m, o)
    \/ \E o \in ShortContactOutcomes : CallGetContacts(o)
    \/ \E o \in ShortDealOutcomes : CallGetDeals(o)

SpecRequest == Init /\ [][NextRequest]_vars

\* ------------------------------------------------------------------------
\* Threads.  The scheduler runs each job it fires on a worker thread of its
\* pool and the server runs trigger_job on a request thread; agent_log and
\* metrics are module globals that every run reads and writes with no lock.
\* A run is the sequence of its accesses to these globals, one step each:
\*   log       log_action: the insert at the head (the length test that
\*             follows is false for any interleaving while the log is below
\*             its capacity, so it is not a step of its own here)
\*   last_run  metrics['last_run'][job] = ...
\*   load      the read of  metrics[c] += d
\*   store     the write of metrics[c] += d, of the value read plus d
\*   fetch     the CRM calls of the job; what they return decides the rest
\* ------------------------------------------------------------------------
Op(op, arg, d) == [op |-> op, arg |-> arg, d |-> d]

LogOps(type) == <<Op("log", type, 0)>>

\* metrics[c] += d
Increment(c, d) == <<Op("load", c, d), Op("store", c, d)>>

\* send_slack, lines 59-77
SlackOps(url, delivered) ==
    IF SlackUnconfigured(url) THEN LogOps("SLACK")
    ELSE IF delivered THEN Increment("alerts_sent", 1) \o LogOps("SLACK")
    ELSE LogOps("ERROR")

\* what every job does before its first CRM call
Prologue(j) ==
    LogOps("JOB_START")
    \o (IF j = "weekly_report" THEN <<>> ELSE <<Op("last_run", j, 0)>>)
    \o <<Op("fetch", j, 0)>>

RECURSIVE TaskOps(_)
\* create_hubspot_task called k times, each creating its task (lines 152-154)
TaskOps(k) ==
    IF k = 0 THEN <<>>
    ELSE LogOps("TASK") \o Increment("interventions_made", 1) \o TaskOps(k - 1)

\* what job j does after its CRM calls returned n records, k of them stalled
\* deals (deal_health only), with the webhook delivering or not
Body(j, n, k, url, delivered) ==
    CASE j = "deal_health" ->
            Increment("deals_monitored", n)
            \o (IF k = 0 THEN LogOps("HEALTH_CHECK")
                ELSE TaskOps(Min(TopN, k)) \o SlackOps(url, delivered)
                     \o LogOps("ALERT"))
      [] j = "morning_brief" ->
            Increment("leads_analyzed", n) \o SlackOps(url, delivered)
            \o LogOps("BRIEF")
      [] j = "lead_score" -> SlackOps(url, delivered) \o LogOps("ANALYSIS")
      [] OTHER -> SlackOps(url, delivered) \o LogOps("REPORT")

Running(t) == threads[t].state = "running"

InstanceAlwaysFreeMutant(j) == TRUE

\* add_job(...) with neither max_instances nor an executor: every job keeps
\* the scheduler's default of one running instance, so the scheduler starts
\* a run of job j only while no run of j that it started is still executing
\* (a trigger that comes due meanwhile is skipped)
InstanceFree(j) ==
    \A w \in Workers : ~(Running(w) /\ threads[w].job = j)

StartRun(t, j, who) ==
    threads' = [threads EXCEPT ![t] =
        [state |-> "running", job |-> j, caller |-> who,
         ops |-> Prologue(j), reg |-> 0]]

\* a trigger of job j is due and worker w is free
WorkerFire(w, j) ==
    /\ w \in Workers /\ threads[w].state = "idle"
    /\ InstanceFree(j)
    /\ StartRun(w, j, "scheduler")
    /\ UNCHANGED <<agent_log, metrics, config, crm, performed, pc, job, caller, locals,
                   exc, calls, slack, task_calls, faults, response>>

\* POST /api/trigger/<j> is served by request thread r
RequestTrigger(r, j) ==
    /\ r \in RequestThreads /\ threads[r].state = "idle"
    /\ Registered(j)
    /\ StartRun(r, j, "manual")
    /\ UNCHANGED <<agent_log, metrics, config, crm, performed, pc, job, caller, locals,
                   exc, calls, slack, task_calls, faults, response>>

\* thread t's CRM calls return: n records, k of them stalled deals; whether
\* the webhook will deliver is drawn here as well
ThreadFetch(t, n, k, delivered) ==
    /\ Running(t) /\ threads[t].ops # <<>> /\ Head(threads[t].ops).op = "fetch"
    /\ k <= n
    /\ threads' = [threads EXCEPT ![t].ops =
          Body(threads[t].job, n, IF threads[t].job = "deal_health" THEN k ELSE 0,
               SLACK_WEBHOOK_URL, delivered)]
    /\ UNCHANGED <<agent_log, metrics, config, crm, performed, pc, job, caller, locals,
                   exc, calls, slack, task_calls, faults, response>>

\* thread t executes the next access of its run to the globals
ThreadStep(t) ==
    /\ Running(t) /\ threads[t].ops # <<>> /\ Head(threads[t].ops).op # "fetch"
    /\ LET th == threads[t]
           o == Head(th.ops)
           rest == Tail(th.ops)
       IN  CASE o.op = "log" ->
                  /\ agent_log' = log_action(agent_log, o.arg, th.job)
                  /\ performed' = [performed EXCEPT !.log_entries = @ + 1]
                  /\ threads' = [threads EXCEPT ![t].ops = rest]
                  /\ UNCHANGED metrics
             [] o.op = "last_run" ->
                  /\ metrics' = [metrics EXCEPT !.last_run = @ \cup {o.arg}]
                  /\ threads' = [threads EXCEPT ![t].ops = rest]
                  /\ UNCHANGED <<agent_log, performed>>
             [] o.op = "load" ->
                  /\ threads' = [threads EXCEPT ![t].ops = rest,
                                                ![t].reg = metrics[o.arg]]
                  /\ UNCHANGED <<agent_log, metrics, performed>>
             [] OTHER ->  \* store
                  /\ metrics' = [metrics EXCEPT ![o.arg] = th.reg + o.d]
                  /\ performed' = [performed EXCEPT ![o.arg] = @ + o.d]
                  /\ threads' = [threads EXCEPT ![t].ops = rest]
                  /\ UNCHANGED agent_log
    /\ UNCHANGED <<config, crm, pc, job, caller, locals, exc, calls, slack, task_calls,
                   faults, response>>

\* the job function returns: the worker, or the request thread, is done
ThreadReturn(t) ==
    /\ Running(t) /\ threads[t].ops = <<>>
    /\ threads' = [threads EXCEPT ![t] =
                      [state |-> "done", job |-> @.job, caller |-> @.caller]]
    /\ UNCHANGED <<agent_log, metrics, config, crm, performed, pc, job, caller, locals,
                   exc, calls, slack, task_calls, faults, response>>

\* records a CRM page of the thread view holds, stalled deals among them
PageSizes == 0..MaxShort

\* Two runs side by side: one fired by the scheduler, one triggered by hand,
\* over pages of any size, the webhook configured.
RaceThreads == {"worker1", "request1"}

NextRace ==
    \/ \E j \in JobNames : WorkerFire("worker1", j)
    \/ \E r \in RequestThreads, j \in JobNames : RequestTrigger(r, j)
    \/ \E t \in RaceThreads, n \in PageSizes, k \in {0, 1}, d \in BOOLEAN :
          ThreadFetch(t, n, k, d)
    \/ \E t \in RaceThreads : ThreadStep(t)
    \/ \E t \in RaceThreads : ThreadReturn(t)

InitRace ==
    /\ Init
    /\ HUBSPOT_TOKEN /\ SLACK_WEBHOOK_URL = "url" /\ ~anthropic_client

SpecRace == InitRace /\ [][NextRace]_vars

\* The scheduler with its pool and the server: any worker may take any due
\* trigger, against an empty CRM and with the webhook in demo mode.
NextSchedule ==
    \/ \E w \in Workers, j \in JobNames : WorkerFire(w, j)
    \/ \E r \in RequestThreads, j \in JobNames : RequestTrigger(r, j)
    \/ \E t \in Threads : ThreadFetch(t, 0, 0, TRUE)
    \/ \E t \in Threads : ThreadStep(t)
    \/ \E t \in Threads : ThreadReturn(t)

InitSchedule ==
    /\ Init
    /\ HUBSPOT_TOKEN /\ SLACK_WEBHOOK_URL = "demo-mode" /\ ~anthropic_client

SpecSchedule == InitSchedule /\ [][NextSchedule]_vars

\* ------------------------------------------------------------------------
\* log_action called over and over by one caller, as the jobs and endpoints
\* of a long-lived process do: the k-th call after startup carries k as its
\* message.  performed.log_entries counts the calls.
\* ------------------------------------------------------------------------
MaxAppends == 203

CallLogAction ==
    /\ performed.log_entries < MaxAppends
    /\ agent_log' = log_action(agent_log, "INFO", performed.log_entries + 1)
    /\ performed' = [performed EXCEPT !.log_entries = @ + 1]
    /\ UNCHANGED <<metrics, config, crm, threads, pc, job, caller, locals, exc, calls,
                   slack, task_calls, faults, response>>

NextLog == CallLogAction

InitLog ==
    /\ Init
    /\ HUBSPOT_TOKEN /\ SLACK_WEBHOOK_URL = "url" /\ anthropic_client

SpecLog == InitLog /\ [][NextLog]_vars

\* ------------------------------------------------------------------------
\* GET /api/report/weekly: weekly_report().  One request is one action: the
\* two fetches, the figures of the executive summary, the two listings, the
\* analysis and the answer, all inside the handler's own try/except.
\* ------------------------------------------------------------------------
\* the deals the report is computed from
ReportDealCatalog == <<
    [id |-> 1, dealstage |-> Str(<<"c","l","o","s","e","d","w","o","n">>),
     hs_lastmodifieddate |-> Str(<<"1","0","0","0">>),
     amount |-> Str(<<"1","0","0">>)],
    [id |-> 2, dealstage |-> Str(<<"c","l","o","s","e","d","w","o","n">>),
     hs_lastmodifieddate |-> Str(<<"1","0","0","0">>),
     amount |-> Str(<<"2","0","0">>)],
    [id |-> 3, dealstage |-> Str(<<"C","l","o","s","e","d"," ","W","o","n">>),
     hs_lastmodifieddate |-> Str(<<"1","0","0","0">>),
     amount |-> Num(400)],
    [id |-> 4, dealstage |-> Str(<<"c","l","o","s","e","d","l","o","s","t">>),
     hs_lastmodifieddate |-> Str(<<"1","0","0","0">>),
     amount |-> Str(<<"5","0">>)],
    [id |-> 5, dealstage |-> Str(<<"w","o","n","-","b","a","c","k">>),
     hs_lastmodifieddate |-> Str(<<"1","0","0","0">>),
     amount |-> Str(<<"7","0","0">>)],
    [id |-> 6, dealstage |-> Str(<<"c","l","o","s","e","d","w","o","n">>),
     hs_lastmodifieddate |-> Str(<<"1","0","0","0">>),
     amount |-> Absent],
    [id |-> 7, dealstage |-> Str(<<"n","e","g","o","t","i","a","t","i","o","n">>),
     hs_lastmodifieddate |-> Str(<<"1","0","0","0">>),
     amount |-> Str(<<"3","0","0">>)],
    [id |-> 8, dealstage |-> Str(<<"c","l","o","s","e","d","w","o","n">>),
     hs_lastmodifieddate |-> Str(<<"1","0","0","0">>),
     amount |-> Null],
    [id |-> 9, dealstage |-> Str(<<"c","l","o","s","e","d","w","o","n">>),
     hs_lastmodifieddate |-> Str(<<"1","0","0","0">>),
     amount |-> Str(<<"n","/","a">>)]
>>

ReportDealPages == Pages(ReportDealCatalog, MaxDeals)

\* the contacts the report is computed from: three inside the last seven
\* days, an old one, and a recent one whose score is not a number
ReportContactCatalog == <<
    [id |-> 1, createdate |-> Str(<<"7","7","7","6","0","0","0","0","0">>),
     lead_score_ml |-> Absent],
    [id |-> 2, createdate |-> Str(<<"7","7","7","6","0","0","0","0","1">>),
     lead_score_ml |-> Str(<<"8","5">>)],
    [id |-> 3, createdate |-> Str(<<"1","9","7","0","-","0","1","-","1","0","T","1","2",":","0","0",":","0","0","Z">>),
     lead_score_ml |-> Num(90)],
    [id |-> 4, createdate |-> Str(<<"1","0","0","0">>),
     lead_score_ml |-> Str(<<"h","i","g","h">>)],
    [id |-> 5, createdate |-> Str(<<"7","7","7","6","0","0","0","0","2">>),
     lead_score_ml |-> Str(<<"h","i","g","h">>)]
>>

ReportContactOutcomes == FetchOutcomes(Pages(ReportContactCatalog, MaxContacts))

\* f"{x:.1f}" and f"{x:,.2f}" of the quotient num / den, as the whole number
\* of tenths (scale 10) or of cents (scale 100) that is printed: the nearest
\* one, an exact half going to the even neighbour
RoundHalfEven(a, b) ==
    LET q == a \div b
        r == a % b
    IN  IF 2 * r < b THEN q
        ELSE IF 2 * r > b THEN q + 1
        ELSE IF q % 2 = 0 THEN q ELSE q + 1

\* num / den printed with the given scale; `/` raises on a zero divisor
Divide(num, den, scale) ==
    IF den = 0 THEN Raise("ZeroDivisionError")
    ELSE Val(RoundHalfEven(num * scale, den))

ConversionRateUnguardedMutant(won, leads) == Divide(won * 100, leads, 10)

\* {(len(won_deals) / len(weekly_leads) * 100) if weekly_leads else 0:.1f},
\* in tenths of a percent
ConversionRate(won, leads) ==
    IF leads # 0 THEN Divide(won * 100, leads, 10) ELSE Val(0)

\* {(revenue / len(won_deals)) if won_deals else 0:,.2f}, in cents
AverageDealSize(revenue, won) ==
    IF won # 0 THEN Divide(revenue, won, 100) ELSE Val(0)

\* weekly_closed[:10]
ListingCap == 10

Listed(s) == SubSeq(s, 1, Min(ListingCap, Len(s)))

\* everything between the two fetches and the analysis: the figures, or the
\* first exception raised on the way
ReportFigures(contacts, deals, nowms) ==
    LET scan == ScanContacts(contacts, nowms - SevenDaysMs,
                             [v |-> <<>>, skipped |-> {}])
        weekly_closed == SelectSeq(deals, LAMBDA d : StageHas(d, <<"c","l","o","s","e","d">>))
        won_deals == SelectSeq(weekly_closed, LAMBDA d : StageHas(d, <<"w","o","n">>))
        revenue == SumAmounts(won_deals, TRUE)
        rate == ConversionRate(Len(won_deals), Len(scan.v))
        average == AverageDealSize(revenue.v, Len(won_deals))
        top_leads == HighScore(scan.v)
        listing == SumAmounts(Listed(weekly_closed), FALSE)
    IN  IF ~StagesOk(deals) THEN Raise("AttributeError")
        ELSE IF revenue.exc # "none" THEN revenue
        ELSE IF rate.exc # "none" THEN rate
        ELSE IF average.exc # "none" THEN average
        ELSE IF top_leads.exc # "none" THEN top_leads
        ELSE IF listing.exc # "none" THEN listing
        ELSE Val([weekly_leads |-> Len(scan.v),
                  weekly_closed |-> Len(weekly_closed),
                  won_deals |-> Len(won_deals),
                  revenue |-> revenue.v,
                  conversion_rate |-> rate.v,
                  average_deal_size |-> average.v])

weekly_report(contactsOutcome, dealsOutcome, nowms, ok) ==
    /\ pc = "idle"
    /\ LET c == get_hubspot_contacts(agent_log, HUBSPOT_TOKEN, contactsOutcome)
           d == IF c.exc # "none" THEN c
                ELSE get_hubspot_deals(c.log, HUBSPOT_TOKEN, dealsOutcome)
           figures == IF d.exc # "none" THEN Raise(d.exc)
                      ELSE ReportFigures(c.v, d.v, nowms)
           a == analyze_with_claude(d.log, anthropic_client, ok)
       IN  /\ faults' = faults
                 \cup If(RequestFails(HUBSPOT_TOKEN, contactsOutcome), "crm")
                 \cup If(c.exc = "none" /\ RequestFails(HUBSPOT_TOKEN, dealsOutcome), "crm")
           /\ exc' = figures.exc
           /\ IF figures.exc # "none"
              THEN /\ agent_log' = log_action(d.log, "ERROR", "Report generation failed")
                   /\ calls' = [calls EXCEPT !.crm = @ + c.sent +
                                                (IF c.exc # "none" THEN 0 ELSE d.sent)]
                   /\ locals' = [now |-> nowms]
                   /\ response' = 500
              ELSE /\ agent_log' = log_action(a.log, "REPORT", "Weekly report generated")
                   /\ calls' = [calls EXCEPT !.crm = @ + c.sent + d.sent,
                                             !.llm = @ + a.sent]
                   /\ locals' = [now |-> nowms, contacts |-> c.v, deals |-> d.v,
                                 figures |-> figures.v]
                   /\ response' = 200
    /\ pc' = "done"
    /\ caller' = "report"
    /\ UNCHANGED <<metrics, config, crm, threading, job, slack, task_calls>>

\* the page of deals the CRM holds, as the answer to a fetch
HeldPage == Response(200, DictBody(FALSE, TRUE, crm.deals, FALSE))

\* the CRM holds one page of deals: the endpoint is answered with it or with
\* a failure, the weekly job with it
NextReport ==
    \/ \E co \in ReportContactOutcomes, do \in FetchOutcomes({crm.deals}),
          n \in NowValues, ok \in BOOLEAN : weekly_report(co, do, n, ok)
    \/ SchedulerFire("weekly_report")
    \/ WeeklyReportStart
    \/ \E o \in ShortContactOutcomes, n \in NowValues :
          WeeklyReportContacts(o, n)
    \/ WeeklyReportDeals(HeldPage)
    \/ \E ok \in BOOLEAN : Analyze(ok)
    \/ \E o \in WebhookOutcomes : SendSlackStep(o)
    \/ ReportFinish
    \/ JobReturn

InitReport ==
    /\ \E held \in ReportDealPages : InitWith(held)
    /\ SLACK_WEBHOOK_URL = "url"

SpecReport == InitReport /\ [][NextReport]_vars

\* ------------------------------------------------------------------------
\* The deal-health trigger coming due twice while the CRM's deals stay as
\* they are: both runs are served the same page.
\* ------------------------------------------------------------------------
JobRuns == Cardinality({i \in DOMAIN agent_log : agent_log[i].type = "JOB_START"})

\* the run is over and the interval of the trigger elapses
NextDue ==
    /\ pc = "done" /\ caller = "scheduler"
    /\ JobRuns = 1
    /\ pc' = "idle"
    /\ job' = "none" /\ caller' = "none"
    /\ locals' = NoLocals
    /\ exc' = "none" /\ faults' = {}
    /\ UNCHANGED <<agent_log, metrics, config, crm, threading, calls, slack, task_calls,
                   response>>

NextRepeat ==
    \/ SchedulerFire("deal_health")
    \/ DealHealthStart
    \/ \E n \in NowValues : DealHealthScan(HeldPage, n)
    \/ \E post \in TaskOutcomes, put \in AssocOutcomes : DealHealthTask(post, put)
    \/ \E o \in WebhookOutcomes : SendSlackStep(o)
    \/ DealHealthFinish
    \/ JobReturn
    \/ NextDue

InitRepeat ==
    /\ \E held \in ShortDealPages : InitWith(held)
    /\ ~anthropic_client

SpecRepeat == InitRepeat /\ [][NextRepeat]_vars

\* ========================================================================
\* Properties
\* ========================================================================
HasError(log) == \E i \in DOMAIN log : log[i].type = "ERROR"

\* the deal-health run has gone through its loop over the fetched deals
Scanned == job = "deal_health" /\ "stalled_deals" \in DOMAIN locals

StalledIds == Range(Ids(locals.stalled_deals))

AmountOf(id) ==
    (CHOOSE r \in Range(locals.stalled_deals) : r.id = id).amount

DistinctAmounts ==
    \A i, k \in DOMAIN locals.stalled_deals :
        i # k => locals.stalled_deals[i].amount # locals.stalled_deals[k].amount

\* "closed" occurs in the stage, in any mix of upper and lower case
ClosedStage(v) ==
    /\ v.t = "str"
    /\ \E i \in 1..(Len(v.s) - 5) :
          /\ v.s[i] \in {"c", "C"} /\ v.s[i + 1] \in {"l", "L"}
          /\ v.s[i + 2] \in {"o", "O"} /\ v.s[i + 3] \in {"s", "S"}
          /\ v.s[i + 4] \in {"e", "E"} /\ v.s[i + 5] \in {"d", "D"}

\* C1 (as stated): whatever fault a step of a job meets, the job returns
\* normally and the log holds an ERROR entry; nothing leaves the job.
C1_AnyFaultLogged ==
    /\ pc # "raised"
    /\ response # 500
    /\ (faults # {} \/ exc # "none") => HasError(agent_log)

\* C1 (amended): no exception leaves a job (the manual trigger never answers
\* 500), and every fault other than a date that does not parse leaves an
\* ERROR entry in the log; a record whose date does not parse is skipped
\* without one.
C1_FaultsLoggedExceptDates ==
    /\ pc # "raised"
    /\ response # 500
    /\ (pc = "done" /\ caller = "manual") => response = 200
    /\ ((faults \ {"date"}) # {} \/ exc # "none") => HasError(agent_log)

\* a manual run whose task creation raised KeyError, over
C1_Witness ==
    /\ pc = "done" /\ caller = "manual" /\ job = "deal_health"
    /\ exc = "KeyError" /\ response = 200 /\ HasError(agent_log)

C3_UnknownDateSkipped ==
    Scanned =>
        \A i \in DOMAIN locals.deals :
            LET d == locals.deals[i]
            IN  (d.hs_lastmodifieddate.t = "absent"
                 \/ ParseDateMs(d.hs_lastmodifieddate).exc # "none")
                => /\ d.id \notin StalledIds
                   /\ d.id \notin Range(task_calls)
                   /\ "payload" \in DOMAIN locals => d.id \notin Range(locals.payload.named)

\* the calls made so far went to stalled deals, in strictly descending amount,
\* and no stalled deal left out has an amount above a called one's
CallsAreTopDescending ==
    /\ Range(task_calls) \subseteq StalledIds
    /\ \A i, k \in DOMAIN task_calls :
          i < k => AmountOf(task_calls[i]) > AmountOf(task_calls[k])
    /\ \A id \in StalledIds \ Range(task_calls) :
          \A i \in DOMAIN task_calls : AmountOf(task_calls[i]) > AmountOf(id)

\* C4 (as stated): a run with n stalled deals of distinct amounts calls
\* create_hubspot_task for exactly the min(5, n) highest, in descending order.
C4_TopFiveAlways ==
    (Scanned /\ pc \in {"return", "done"} /\ DistinctAmounts /\ locals.stalled_deals # <<>>)
        => /\ CallsAreTopDescending
           /\ Len(task_calls) = Min(5, Len(locals.stalled_deals))

\* C5: a run that completes without fault calls the notifier once if there
\* are stalled deals, whatever number of tasks was created, and otherwise
\* not at all, logging HEALTH_CHECK.
C5_OneAlertIffStalled ==
    (Scanned /\ pc \in {"return", "done"} /\ exc = "none")
        => IF locals.stalled_deals # <<>>
           THEN Len(slack) = 1
           ELSE /\ Len(slack) = 0
                /\ agent_log[1].type = "HEALTH_CHECK"

\* three stalled deals, no task created, one alert
C5_Witness ==
    /\ Scanned /\ pc = "done" /\ exc = "none"
    /\ Len(locals.stalled_deals) = 3 /\ locals.tasks_created = 0
    /\ Len(slack) = 1

\* C6 (as stated): the alert lists every stalled deal.
C6_AlertNamesAll ==
    (Scanned /\ slack # <<>>) => Range(slack[1].payload.named) = StalledIds

\* C6 (amended): the alert gives the number of all stalled deals and lists
\* the min(5, n) of them with the highest amounts, highest first.
C6_AlertNamesTopFive ==
    (Scanned /\ slack # <<>>) =>
        LET a == slack[1].payload
        IN  /\ a.count = Cardinality(StalledIds)
            /\ a.count >= 1
            /\ Len(a.named) = Min(5, a.count)
            /\ Range(a.named) \subseteq StalledIds
            /\ \A i, k \in DOMAIN a.named :
                  i < k => AmountOf(a.named[i]) >= AmountOf(a.named[k])
            /\ \A id \in StalledIds \ Range(a.named) :
                  \A i \in DOMAIN a.named : AmountOf(a.named[i]) >= AmountOf(id)

\* six stalled deals, five of them listed
C6_Witness ==
    /\ Scanned /\ slack # <<>>
    /\ slack[1].payload.count = 6
    /\ slack[1].payload.named = <<6, 7, 9, 5, 8>>

\* C7: a fetched contact is a recent lead iff its normalized createdate is
\* strictly greater than now minus 24 hours; one without a usable date is
\* left out and the job goes on.
C7_RecentIff ==
    (job = "morning_brief" /\ "recent_contacts" \in DOMAIN locals) =>
        /\ pc = "mb_deals" => exc = "none"
        /\ \A i \in DOMAIN locals.contacts :
              LET c == locals.contacts[i]
                  norm == ParseDateMs(Get(c.createdate, DateDefault))
              IN  (c.id \in Range(Ids(locals.recent_contacts))) <=>
                      /\ norm.exc = "none"
                      /\ norm.v - (locals.now - OneDayMs) >= 1

\* contact 1 exactly at the cutoff, contact 2 one millisecond after it,
\* contact 3 without createdate, contact 4 with a date that does not parse:
\* only contact 2 is recent, and the job goes on to its deals
C7_Witness ==
    /\ job = "morning_brief" /\ pc = "mb_deals" /\ locals.now = NowBase
    /\ Ids(locals.contacts) = <<1, 2, 3, 4>>
    /\ Ids(locals.recent_contacts) = <<2>>
    /\ locals.skipped = {4}

SlackCall == pc = "slack" /\ pc' = "after_slack"

\* C8: with no webhook configured a call of send_slack returns true, changes
\* no counter, makes no network call and appends one entry, tagged SLACK.
C8_DemoMode ==
    [][(SlackCall /\ SLACK_WEBHOOK_URL \in {"unset", "demo-mode"}) =>
          /\ slack'[Len(slack')].ret = TRUE
          /\ metrics' = metrics
          /\ calls' = calls
          /\ Len(agent_log') = Len(agent_log) + 1
          /\ agent_log'[1].type = "SLACK"
          /\ Tail(agent_log') = agent_log]_vars

C8_Witness ==
    /\ pc = "after_slack" /\ SLACK_WEBHOOK_URL = "demo-mode"
    /\ Len(slack) = 1 /\ slack[1].ret = TRUE
    /\ calls.webhook = 0 /\ metrics.alerts_sent = 0
    /\ agent_log[1].type = "SLACK"

SlackOk == /\ slack'[Len(slack')].ret = TRUE
           /\ metrics' = [metrics EXCEPT !.alerts_sent = @ + 1]

SlackFailed == /\ slack'[Len(slack')].ret = FALSE
               /\ metrics' = metrics
               /\ agent_log'[1].type = "ERROR"
               /\ Tail(agent_log') = agent_log

Answer2xx(a) == a.kind = "response" /\ a.status >= 200 /\ a.status <= 299

\* C9 (as stated): with a webhook configured send_slack returns true and
\* adds 1 to alerts_sent on a 2xx answer; on anything else it returns false,
\* logs ERROR and leaves alerts_sent alone.
C9_Any2xxDelivers ==
    [][(SlackCall /\ SLACK_WEBHOOK_URL = "url") =>
          IF Answer2xx(slack'[Len(slack')].answer) THEN SlackOk ELSE SlackFailed]_vars

\* C9 (amended): the same with status 200 in the place of 2xx; any other
\* status, 2xx or not, counts as a failure.
C9_Only200Delivers ==
    [][(SlackCall /\ SLACK_WEBHOOK_URL = "url") =>
          LET a == slack'[Len(slack')].answer
          IN  IF a.kind = "response" /\ a.status = 200 THEN SlackOk ELSE SlackFailed]_vars

\* the webhook answered 204: not delivered
C9_Witness ==
    /\ pc = "after_slack" /\ SLACK_WEBHOOK_URL = "url"
    /\ slack[1].answer = Response(204, InvalidBody)
    /\ slack[1].ret = FALSE /\ metrics.alerts_sent = 0
    /\ agent_log[1].type = "ERROR"

ErrorAppended ==
    /\ Len(agent_log) = Len(StartupLog) + 1
    /\ agent_log[1].type = "ERROR"
    /\ Tail(agent_log) = StartupLog

WrapperCalled == pc = "called" /\ locals.fn \in {"get_hubspot_contacts", "get_hubspot_deals"}

WrappersEmptyOnFailure ==
    (WrapperCalled /\ RequestFails(HUBSPOT_TOKEN, locals.outcome))
        => locals.ret = <<>> /\ locals.exc = "none"

\* C10 (as stated): a call of hubspot_request without a parsed successful
\* response, an unsupported method included, returns None and appends an
\* ERROR entry; the list wrappers then return an empty sequence.
C10_EveryFailureLogged ==
    /\ (pc = "called" /\ locals.fn = "hubspot_request"
        /\ (RequestFails(HUBSPOT_TOKEN, locals.outcome)
            \/ locals.method \notin SupportedMethods))
          => locals.ret = None /\ ErrorAppended
    /\ WrappersEmptyOnFailure

\* C10 (amended): the same, except that an unsupported method with the token
\* configured returns None without any log entry and without a call.
C10_FailureLoggedUnlessMethod ==
    /\ (pc = "called" /\ locals.fn = "hubspot_request"
        /\ (RequestFails(HUBSPOT_TOKEN, locals.outcome)
            \/ locals.method \notin SupportedMethods))
          => /\ locals.ret = None
             /\ IF HUBSPOT_TOKEN /\ locals.method \notin SupportedMethods
                THEN agent_log = StartupLog /\ calls.crm = 0
                ELSE ErrorAppended
    /\ WrappersEmptyOnFailure

\* a status the client does not accept: None, one ERROR entry
C10_Witness ==
    /\ pc = "called" /\ locals.fn = "hubspot_request" /\ HUBSPOT_TOKEN
    /\ locals.method = "GET" /\ locals.outcome = Response(204, DictBody(FALSE, FALSE, <<>>, FALSE))
    /\ locals.ret = None /\ ErrorAppended

\* ------------------------------------------------------------------------
\* C11: POST /api/trigger/<job_name> with a name that is not one of the four
\* registered jobs answers 400 and runs no job: the log, the counters and
\* last_run are as they were and no external call has been made.
\* ------------------------------------------------------------------------
TriggeredWith(names) == "job_name" \in DOMAIN locals /\ locals.job_name \in names

C11_UnknownNameRejected ==
    TriggeredWith(UnknownNames) =>
        /\ response = 400 /\ pc = "done"
        /\ job = "none" /\ caller = "none"
        /\ agent_log = StartupLog
        /\ metrics = InitialMetrics
        /\ calls = [crm |-> 0, webhook |-> 0, llm |-> 0]
        /\ slack = <<>> /\ task_calls = <<>>

C11_Witness ==
    /\ TriggeredWith({"DEAL_HEALTH"}) /\ response = 400
    /\ HUBSPOT_TOKEN /\ SLACK_WEBHOOK_URL = "url"

\* ------------------------------------------------------------------------
\* C12: POST /api/trigger/<job_name> with a registered name answers 500
\* whenever the triggered job suffers an internal failure during its run.
\* ------------------------------------------------------------------------
ManualRunOver == pc = "done" /\ caller = "manual"

\* the claim as made: a run in which an exception reached the job's try is
\* answered 500
C12_FailureAnswers500 ==
    (ManualRunOver /\ exc # "none") => response = 500

\* C12 as amended: the job catches the failure at its own boundary and logs
\* it as an ERROR entry, the newest of the log when the endpoint answers, and
\* the endpoint answers 200 (500 is kept for an exception that leaves the
\* job, which no job lets happen)
C12_FailureAnswers200 ==
    ManualRunOver =>
        /\ response = 200
        /\ exc # "none" => agent_log[1] = Entry("ERROR", FailMessage(job))

C12_Witness ==
    /\ ManualRunOver /\ job = "deal_health" /\ exc = "KeyError"
    /\ response = 200 /\ agent_log[1].type = "ERROR"

\* ------------------------------------------------------------------------
\* C13: no step of any execution lowers leads_analyzed, deals_monitored,
\* interventions_made or alerts_sent, whatever the interleaving of a run
\* fired by the scheduler with a run triggered by hand.
\* ------------------------------------------------------------------------
C13_CountersNeverDecrease ==
    [][\A c \in Counters : metrics'[c] >= metrics[c]]_vars

\* ------------------------------------------------------------------------
\* C14: no update is lost when runs execute concurrently: once the runs are
\* over each counter is its initial value plus the sum of the increments the
\* runs performed, and every entry log_action appended is in the log unless
\* the capacity evicted it.
\* ------------------------------------------------------------------------
Quiescent == \A t \in Threads : ~Running(t)

C14_NoLostUpdate ==
    Quiescent =>
        /\ \A c \in Counters : metrics[c] = InitialMetrics[c] + performed[c]
        /\ Len(agent_log) = Min(LogCap, Len(StartupLog) + performed.log_entries)

\* ------------------------------------------------------------------------
\* C15: after n calls of log_action the log holds exactly the min(n, 200)
\* most recently appended entries, newest first; it never holds more than
\* 200 entries between calls, and a full log loses exactly its oldest entry
\* on each append.
\* ------------------------------------------------------------------------
\* the entry the k-th call of log_action of the process appended: the two
\* calls of startup come first
Appended(k) ==
    IF k <= Len(StartupLog) THEN StartupLog[Len(StartupLog) + 1 - k]
    ELSE Entry("INFO", k - Len(StartupLog))

CallsSoFar == Len(StartupLog) + performed.log_entries

C15_NewestFirstBounded ==
    /\ Len(agent_log) = Min(CallsSoFar, LogCap)
    /\ \A i \in DOMAIN agent_log : agent_log[i] = Appended(CallsSoFar + 1 - i)

\* the log was full and three more entries went in: the three oldest are gone
C15_Witness ==
    /\ CallsSoFar = LogCap + 3
    /\ Len(agent_log) = LogCap
    /\ agent_log[1] = Appended(LogCap + 3)
    /\ agent_log[LogCap] = Appended(4)

\* ------------------------------------------------------------------------
\* C16: a job run twice against an unchanged CRM snapshot leaves the external
\* effects of one run; two runs of deal_health_check_job over the same
\* stalled deals create no second follow-up task for a deal that has one.
\* ------------------------------------------------------------------------
C16_NoSecondTask ==
    \A i, k \in DOMAIN crm.tasks : i # k => crm.tasks[i] # crm.tasks[k]

\* ------------------------------------------------------------------------
\* C17: one run of deal_health_check_job adds to deals_monitored the number
\* of deals fetched, whatever their state, and to interventions_made the
\* number of tasks created in the run, which is min(5, stalled deals) when
\* every creation succeeds; 1 closed, 1 fresh and 1 stalled deal give +3, +1
\* and exactly one webhook call.
\* ------------------------------------------------------------------------
HealthRunOver == pc = "done" /\ job = "deal_health"

Fetched == IF "deals" \in DOMAIN locals THEN locals.deals ELSE <<>>

EveryCreationSucceeded == exc = "none" /\ Len(crm.tasks) = Len(task_calls)

\* deals 1, 2, 3 of the catalogue: closed won, modified a day ago, and open
\* but last modified just over seven days ago
Fixture == Ids(Fetched) = <<1, 2, 3>> /\ locals.now = NowBase + 1

C17_CountersPerRun ==
    HealthRunOver =>
        /\ metrics.deals_monitored = InitialMetrics.deals_monitored + Len(Fetched)
        /\ metrics.interventions_made =
              InitialMetrics.interventions_made + Len(crm.tasks)
        /\ (Scanned /\ EveryCreationSucceeded) =>
              Len(crm.tasks) = Min(TopN, Len(locals.stalled_deals))
        /\ (Fixture /\ EveryCreationSucceeded) =>
              /\ metrics.deals_monitored = 3
              /\ metrics.interventions_made = 1
              /\ crm.tasks = <<3>>
              /\ Len(slack) = 1
              /\ calls.webhook = IF SlackUnconfigured(SLACK_WEBHOOK_URL) THEN 0 ELSE 1

C17_Witness ==
    /\ HealthRunOver /\ Fixture /\ EveryCreationSucceeded
    /\ SLACK_WEBHOOK_URL = "url"
    /\ metrics.deals_monitored = 3 /\ metrics.interventions_made = 1
    /\ calls.webhook = 1

\* ------------------------------------------------------------------------
\* C18: a malformed or absent numeric field never aborts a job: an amount
\* that is absent, null or not a number, or a lead_score_ml that is absent
\* or not a number, counts as 0 and the job runs to its normal completion
\* instead of ending with an ERROR entry.
\* ------------------------------------------------------------------------
\* the run is over and nothing went wrong in it except, possibly, fields of
\* the fetched records that did not parse
OnlyFieldsWrong ==
    /\ pc = "done" /\ job \in JobNames
    /\ faults \subseteq {"date"}
    /\ exc \notin {"AttributeError", "KeyError"}

C18_NumericNeverAborts ==
    OnlyFieldsWrong => (exc = "none" /\ ~HasError(agent_log))

\* ------------------------------------------------------------------------
\* C19: in create_hubspot_task a failed association write does not fail the
\* creation: whenever the task POST succeeds the task is returned, a TASK
\* entry is appended and interventions_made grows by exactly 1 whatever the
\* association's outcome, the association being attempted at most once; when
\* the POST fails no association is attempted and interventions_made is
\* unchanged.
\* ------------------------------------------------------------------------
CreateCalled == pc = "called" /\ locals.fn = "create_hubspot_task"

C19_AssociationBestEffort ==
    CreateCalled =>
        IF ~RequestFails(HUBSPOT_TOKEN, locals.post)
        THEN /\ locals.exc = "none" /\ locals.task
             /\ agent_log[1].type = "TASK"
             /\ metrics.interventions_made = InitialMetrics.interventions_made + 1
             /\ calls.crm <= 2
        ELSE /\ locals.exc = "none" /\ ~locals.task /\ ~locals.assoc
             /\ metrics.interventions_made = InitialMetrics.interventions_made
             /\ calls.crm <= 1

\* ------------------------------------------------------------------------
\* C20: the scheduler never has two runs of the same job that it fired
\* executing at the same time, while runs of different jobs, and a run of
\* the same job triggered by hand, may overlap with a scheduled run.
\* ------------------------------------------------------------------------
C20_NoSameJobOverlap ==
    \A w1, w2 \in Workers :
        (w1 # w2 /\ Running(w1) /\ Running(w2)) => threads[w1].job # threads[w2].job

\* a scheduled run of deal_health, a scheduled run of another job and a run
\* of deal_health triggered by hand, all three in the middle of their bodies
C20_Witness ==
    /\ \A t \in Threads : Running(t) /\ threads[t].ops # <<>>
    /\ threads["worker1"].job = "deal_health"
    /\ threads["worker2"].job = "morning_brief"
    /\ threads["request1"].job = "deal_health"
    /\ threads["request1"].caller = "manual"
    /\ Len(agent_log) > Len(StartupLog) + 3

\* ------------------------------------------------------------------------
\* C21: in the weekly report the conversion rate is won-count / leads-count
\* * 100, and 0 when there are no weekly leads; the average deal size is
\* revenue / won-count, and 0 when no deal was won; the revenue is the sum of
\* the amounts of the deals whose stage contains both "closed" and "won";
\* and no input makes a division fail.  The rate is read to the tenth of a
\* percent and the average to the cent, as the report prints them.
\* ------------------------------------------------------------------------
\* "won" occurs in the stage, in any mix of upper and lower case
WonStage(v) ==
    /\ v.t = "str"
    /\ \E i \in 1..(Len(v.s) - 2) :
          /\ v.s[i] \in {"w", "W"} /\ v.s[i + 1] \in {"o", "O"}
          /\ v.s[i + 2] \in {"n", "N"}

ClosedAndWon(d) == ClosedStage(d.dealstage) /\ WonStage(d.dealstage)

RECURSIVE WonRevenue(_)
\* the amounts of the closed-and-won deals added up, a deal without an
\* amount adding nothing
WonRevenue(deals) ==
    IF deals = <<>> THEN 0
    ELSE LET d == Head(deals)
             a == IF ~ClosedAndWon(d) THEN 0
                  ELSE IF d.amount.t = "num" THEN d.amount.n
                  ELSE IF d.amount.t = "str" THEN DecimalValue(d.amount.s)
                  ELSE 0
         IN  a + WonRevenue(Tail(deals))

\* x is a whole number nearest to num / den
Nearest(x, num, den) ==
    LET diff == x * den - num
    IN  2 * (IF diff < 0 THEN 0 - diff ELSE diff) <= den

ReportAnswered == pc = "done" /\ caller = "report" /\ response = 200

C21_ReportFigures ==
    /\ exc # "ZeroDivisionError"
    /\ ReportAnswered =>
          LET f == locals.figures
              won == Cardinality({i \in DOMAIN locals.deals : ClosedAndWon(locals.deals[i])})
              revenue == WonRevenue(locals.deals)
          IN  /\ f.won_deals = won
              /\ f.revenue = revenue
              /\ IF f.weekly_leads = 0 THEN f.conversion_rate = 0
                 ELSE Nearest(f.conversion_rate, won * 100 * 10, f.weekly_leads)
              /\ IF won = 0 THEN f.average_deal_size = 0
                 ELSE Nearest(f.average_deal_size, revenue * 100, won)
    /\ (job = "weekly_report" /\ "revenue" \in DOMAIN locals /\ HUBSPOT_TOKEN) =>
          locals.revenue = WonRevenue(crm.deals)

\* the endpoint answered with a report over three weekly leads and the two
\* won deals of 100 and 200: 66.7 %, revenue 300, average 150.00
C21_Witness ==
    /\ ReportAnswered
    /\ locals.figures.weekly_leads = 3
    /\ locals.figures.won_deals = 2
    /\ locals.figures.revenue = 300
    /\ locals.figures.conversion_rate = 667
    /\ locals.figures.average_deal_size = 15000

\* ------------------------------------------------------------------------
\* C22: once a run of any of the four jobs, fired by the scheduler or
\* triggered by hand, is past its first statements, and so before its first
\* external call and ever after, whether it succeeds or fails,
\* metrics.last_run holds an entry under the job's name.
\* ------------------------------------------------------------------------
C22_LastRunRecorded ==
    (job \in JobNames /\ pc # "start") => job \in metrics.last_run

====
